---------------------------- MODULE Spec2Model ----------------------------
(***************************************************************************)
(* A model of deepod/core/base_model.py: the BaseDeepAD orchestrator.      *)
(*                                                                         *)
(* Scores are integers; a contamination is the rational <<num, den>>; the  *)
(* threshold is kept as the rational <<num, den>> that numpy's linear      *)
(* interpolation yields in exact arithmetic, so floating-point rounding is *)
(* not part of the model.  A data set is the sequence of its rows, each    *)
(* row abstracted to one integer (n_features plays no part in the control  *)
(* flow modelled here; n_ensemble = 'auto' is not modelled).               *)
(***************************************************************************)
EXTENDS Integers, Sequences, FiniteSets, TLC

VARIABLES
    data_type, n_ensemble, epochs, epoch_steps, contamination, seq_len,
    stride, lr,                     \* hyper-parameters set by __init__
    n_samples, net, criterion, train_loader, test_loader,
    decision_scores_, labels_, threshold_, mu_, sigma_,
    pc, member, i, cnt,             \* position and locals of the running call
    X,                              \* the data passed to the last public call
    prepareCalls, epochUpdateCalls, \* hook calls made by the last public call
    trials,                         \* trials run by the last public call
    lastCall, retval                \* the last public call and what it returned

hyper == <<data_type, n_ensemble, epoch_steps, contamination, seq_len, stride, lr>>
decisionState == <<decision_scores_, labels_, threshold_, mu_, sigma_>>
fitLocals == <<X, member, i, cnt, prepareCalls, epochUpdateCalls>>
vars == <<hyper, epochs, n_samples, net, criterion, train_loader, test_loader,
          decisionState, pc, fitLocals, trials, lastCall, retval>>

----------------------------------------------------------------------------
(* Bounds of the model. *)
MaxEnsemble == 2
MaxEpochs == 2
ScoreMaxLen == 3
ScoreMaxEnsemble == 3
ScoreMaxSeqLen == 3
ThrMaxLen == 4

ScoreVals == {0, 1, 3}
ThrVals == {0, 1, 2, 5}
Contaminations == {<<2, 5>>}
EpochSteps == {-1, 1, 2}
NRaySamples == {5}
ThrContaminations == {<<1, 10>>, <<1, 4>>, <<1, 3>>, <<2, 5>>, <<49, 100>>}
DataTypes == {"tabular", "ts", "image"}
TunedLr == {2, 3}

SeqsUpTo(S, n) == UNION {[1..k -> S] : k \in 1..n}
Datasets == {<<1>>, <<0, 1>>, <<1, 0, 1>>}

----------------------------------------------------------------------------
(* Python values. *)
None == [tag |-> "None", v |-> <<>>, w |-> <<>>]
Self == [tag |-> "self", v |-> <<>>, w |-> <<>>]
Val(t, v) == [tag |-> t, v |-> v, w |-> <<>>]
Val2(t, v, w) == [tag |-> t, v |-> v, w |-> w]
Raised(e) == [tag |-> e, v |-> <<>>, w |-> <<>>]
Errors == {"AttributeError", "TypeError", "IndexError", "RuntimeError",
           "NotImplementedError", "ValueError", "HookError"}
IsError(r) == r.tag \in Errors

RECURSIVE SumSeq(_)
SumSeq(s) == IF s = <<>> THEN 0 ELSE Head(s) + SumSeq(Tail(s))

Min(a, b) == IF a < b THEN a ELSE b

RECURSIVE Pow(_, _)
Pow(b, e) == IF e = 0 THEN 1 ELSE b * Pow(b, e - 1)

RECURSIVE Choose(_, _)
Choose(n, k) == IF k = 0 THEN 1 ELSE IF k > n THEN 0
                ELSE Choose(n - 1, k - 1) + Choose(n - 1, k)

----------------------------------------------------------------------------
(* deepod.utils.utility.get_sub_seqs: windows of length sl whose start     *)
(* offsets advance by st; floor((n - sl)/st) + 1 of them, none when n < sl *)
get_sub_seqs(x_arr, sl, st) ==
    IF Len(x_arr) < sl THEN <<>>
    ELSE [k \in 1..((Len(x_arr) - sl) \div st + 1) |->
             SubSeq(x_arr, (k - 1) * st + 1, (k - 1) * st + sl)]

(* The inference_forward hook of a deterministic model in eval mode: one   *)
(* score per item of the loader, a row's value or a window's sum.          *)
inference_forward(item, dt) == IF dt = "ts" THEN SumSeq(item) ELSE item

(* _inference: the scores of all batches concatenated in loader order;     *)
(* net.eval() on an unset net and torch.cat of no batch raise.             *)
Inference(loader, dt) ==
    IF net = 0 THEN Raised("AttributeError")
    ELSE IF Len(loader) = 0 THEN Raised("RuntimeError")
    ELSE Val("scores", [k \in 1..Len(loader) |-> inference_forward(loader[k], dt)])


----------------------------------------------------------------------------
(* decision_function *)
Zeros(n) == [k \in 1..n |-> 0]

(* variant: inference windows advance by the training stride *)
InferenceStrideOfTraining == stride

(* the stride of the windows scored at inference *)
InferenceStride == 1

(* np.hstack((np.zeros(seq_len - 1), scores)) in 'ts' mode *)
Padded(scores, dt, sl) == IF dt = "ts" THEN Zeros(sl - 1) \o scores ELSE scores

(* variant: s_final = scores, each pass overwrites the sum *)
AccumulateOverwrite(s_final, scores) == scores

(* s_final += scores *)
Accumulate(s_final, scores) == [k \in 1..Len(s_final) |-> s_final[k] + scores[k]]

(* for _ in range(self.n_ensemble): every pass scores the same loader with *)
(* the same live net, so every pass yields the same array                  *)
RECURSIVE EnsembleLoop(_, _, _)
EnsembleLoop(k, s_final, scores) ==
    IF k = 0 THEN s_final
    ELSE EnsembleLoop(k - 1, Accumulate(s_final, scores), scores)

Windowed(Xin) ==
    IF data_type = "ts" THEN get_sub_seqs(Xin, seq_len, InferenceStride) ELSE Xin

(* the score array of one inference pass, padded in 'ts' mode *)
MemberScores(Xin) ==
    LET r == Inference(Windowed(Xin), data_type)
    IN  IF IsError(r) THEN r ELSE Val("scores", Padded(r.v, data_type, seq_len))

decision_function(Xin) ==
    LET r == MemberScores(Xin)
    IN  IF IsError(r) THEN r
        ELSE IF Len(r.v) # Len(Xin) THEN Raised("ValueError")
        ELSE Val("scores", EnsembleLoop(n_ensemble, Zeros(Len(Xin)), r.v))

----------------------------------------------------------------------------
(* _process_decision_scores *)
Sorted(s) == SortSeq(s, LAMBDA a, b : a < b)

(* variant: the percentile taken at 100 * contamination *)
PercentileRankOfContamination(c) == <<c[1], c[2]>>

(* 100 * (1 - contamination), as the fraction of the way through the data  *)
PercentileRank(c) == <<c[2] - c[1], c[2]>>

(* np.percentile(scores, q), linear interpolation between the two order    *)
(* statistics around the virtual index (n - 1) * q / 100; exact rational   *)
Percentile(scores, q) ==
    LET n == Len(scores)
        s == Sorted(scores)
        hn == (n - 1) * q[1]
        fl == hn \div q[2]
        rem == hn % q[2]
        lo == s[fl + 1]
        hi == s[Min(fl + 2, n)]
    IN  <<lo * q[2] + rem * (hi - lo), q[2]>>

Gt(x, thr) == x * thr[2] > thr[1]

(* (scores > threshold).astype('int').ravel() *)
Label(scores, thr) == [k \in 1..Len(scores) |-> IF Gt(scores[k], thr) THEN 1 ELSE 0]

Mean(scores) == <<SumSeq(scores), Len(scores)>>

(* the square of np.std(scores), as a rational *)
Variance(scores) ==
    LET n == Len(scores)
        sq == SumSeq([k \in 1..n |-> scores[k] * scores[k]])
    IN  <<n * sq - SumSeq(scores) * SumSeq(scores), n * n>>

(* The decision state _process_decision_scores leaves behind. *)
ProcessDecisionScores(scores, c) ==
    LET thr == Percentile(scores, PercentileRank(c))
    IN  [threshold |-> Val("float", thr),
         labels |-> Val("array", Label(scores, thr)),
         mu |-> Val("float", Mean(scores)),
         sigma |-> Val("float", Variance(scores))]

(* self.labels_ = self._process_decision_scores(), which returns self *)
FitLabels(processed) == Self


----------------------------------------------------------------------------
(* predict and _predict_confidence *)

(* variant: an unset threshold compares as 0 *)
CompareNoneAsZero(pred_score, thr) ==
    Val("labels", Label(pred_score, IF thr = None THEN <<0, 1>> ELSE thr.v))

(* pred_score > self.threshold_: an ordering comparison with None raises *)
Compare(pred_score, thr) ==
    IF thr = None THEN Raised("TypeError")
    ELSE Val("labels", Label(pred_score, thr.v))

(* binom.cdf(m, n, p) for p = a / (n + 2), as a numerator over (n + 2)^n *)
RECURSIVE BinomCdfNum(_, _, _)
BinomCdfNum(m, n, a) ==
    IF m < 0 THEN 0
    ELSE Choose(n, m) * Pow(a, m) * Pow(n + 2 - a, n - m) + BinomCdfNum(m - 1, n, a)

(* the confidence of one test score x, as the rational <<num, den>> *)
Confidence(x, train, thr, c) ==
    LET n == Len(train)
        n_instances == Cardinality({k \in 1..n : train[k] <= x})
        m == n - ((n * c[1]) \div c[2])
        cdf == BinomCdfNum(m, n, 1 + n_instances)
        den == Pow(n + 2, n)
    IN  IF Gt(x, thr) THEN <<den - cdf, den>> ELSE <<cdf, den>>

(* len(self.decision_scores_) of an unset decision_scores_ raises *)
_predict_confidence(test_scores) ==
    IF decision_scores_ = None THEN Raised("TypeError")
    ELSE Val("confidence",
             [k \in 1..Len(test_scores) |->
                 Confidence(test_scores[k], decision_scores_.v, threshold_.v,
                            contamination)])

predict(Xt, return_confidence) ==
    LET pred_score == decision_function(Xt)
        prediction == Compare(pred_score.v, threshold_)
        confidence == _predict_confidence(pred_score.v)
    IN  IF IsError(pred_score) THEN pred_score
        ELSE IF IsError(prediction) THEN prediction
        ELSE IF ~return_confidence THEN prediction
        ELSE IF IsError(confidence) THEN confidence
        ELSE Val2("labels", prediction.v, confidence.v)

----------------------------------------------------------------------------
(* __init__ *)
Constructed ==
    /\ lr = 1
    /\ n_samples = -1
    /\ net = 0 /\ criterion = 0
    /\ train_loader = -1 /\ test_loader = -1
    /\ decision_scores_ = None /\ labels_ = None /\ threshold_ = None
    /\ mu_ = None /\ sigma_ = None
    /\ pc = "idle" /\ X = <<>> /\ member = 0 /\ i = 0 /\ cnt = 0
    /\ prepareCalls = 0 /\ epochUpdateCalls = 0 /\ trials = 0
    /\ lastCall = "none" /\ retval = None

Init ==
    /\ data_type \in DataTypes
    /\ n_ensemble \in 1..MaxEnsemble
    /\ epochs \in 1..MaxEpochs
    /\ epoch_steps \in EpochSteps
    /\ contamination \in Contaminations
    /\ seq_len \in IF data_type = "ts" THEN {2} ELSE {100}
    /\ stride \in IF data_type = "ts" THEN {1, 2} ELSE {1}
    /\ Constructed

----------------------------------------------------------------------------
(* fit *)

(* what fit and fit_auto_hyper train on: the windows in 'ts' mode *)
TrainData(Xin) ==
    IF data_type = "ts" THEN get_sub_seqs(Xin, seq_len, stride) ELSE Xin

(* lines 172-189: frame the training data; pc moves to the ensemble loop *)
FitCall(Xin) ==
    /\ pc = "idle"
    /\ lastCall' = "fit"
    /\ prepareCalls' = 0 /\ epochUpdateCalls' = 0 /\ trials' = 0
    /\ IF Len(TrainData(Xin)) = 0
       THEN \* X_seqs.shape[2] of an empty array
            /\ retval' = Raised("IndexError")
            /\ UNCHANGED <<n_samples, pc>>
       ELSE /\ n_samples' = Len(TrainData(Xin))
            /\ pc' = "prepare"
            /\ retval' = None
    /\ X' = Xin
    /\ UNCHANGED <<hyper, epochs, net, criterion, train_loader, test_loader,
                   decisionState, member, i, cnt>>

batch_size == 2

(* the training_prepare hook: a loader of ceil(n / batch_size) batches *)
NumBatches(n) == (n + batch_size - 1) \div batch_size

(* training_prepare: a fresh loader, net and criterion for the next member *)
TrainingPrepare ==
    /\ pc = "prepare"
    /\ train_loader' = NumBatches(Len(TrainData(X)))
    /\ prepareCalls' = prepareCalls + 1
    /\ net' = prepareCalls + 1
    /\ criterion' = prepareCalls + 1
    /\ i' = 0 /\ cnt' = 0
    /\ pc' = "train"
    /\ UNCHANGED <<hyper, epochs, n_samples, test_loader, decisionState, X,
                   member, epochUpdateCalls, trials, lastCall, retval>>

(* if cnt > self.epoch_steps != -1: break *)
BreakEpoch(c) == c > epoch_steps /\ epoch_steps # -1

(* _training: one batch of the current epoch *)
TrainBatch ==
    /\ pc = "train"
    /\ cnt < train_loader
    /\ cnt' = cnt + 1
    /\ pc' = IF BreakEpoch(cnt + 1) \/ cnt + 1 = train_loader
             THEN "epoch_end" ELSE "train"
    /\ UNCHANGED <<hyper, epochs, n_samples, net, criterion, train_loader,
                   test_loader, decisionState, X, member, i, prepareCalls,
                   epochUpdateCalls, trials, lastCall, retval>>

(* variant: range(self.epochs + 1) *)
AfterEpochOneMore(ii, mm) ==
    IF ii + 1 <= epochs THEN [pc |-> "train", i |-> ii + 1, member |-> mm]
    ELSE IF mm + 1 < n_ensemble THEN [pc |-> "prepare", i |-> 0, member |-> mm + 1]
    ELSE [pc |-> "infer", i |-> 0, member |-> mm + 1]

(* where the loops of fit and _training go after epoch ii of member mm *)
AfterEpoch(ii, mm) ==
    IF ii + 1 < epochs THEN [pc |-> "train", i |-> ii + 1, member |-> mm]
    ELSE IF mm + 1 < n_ensemble THEN [pc |-> "prepare", i |-> 0, member |-> mm + 1]
    ELSE [pc |-> "infer", i |-> 0, member |-> mm + 1]

(* _training: the end of an epoch, epoch_update() *)
EpochEnd ==
    /\ pc = "epoch_end"
    /\ epochUpdateCalls' = epochUpdateCalls + 1
    /\ LET nxt == AfterEpoch(i, member)
       IN  /\ pc' = nxt.pc
           /\ i' = nxt.i
           /\ member' = nxt.member
           /\ cnt' = 0
    /\ UNCHANGED <<hyper, epochs, n_samples, net, criterion, train_loader,
                   test_loader, decisionState, X, prepareCalls, trials,
                   lastCall, retval>>

(* lines 199-202: score the training data and derive the decision state *)
FitInference ==
    /\ pc = "infer"
    /\ pc' = "idle"
    /\ member' = 0 /\ i' = 0 /\ cnt' = 0
    /\ test_loader' = 1
    /\ LET r == decision_function(X)
           p == ProcessDecisionScores(r.v, contamination)
       IN  IF IsError(r)
           THEN retval' = r /\ UNCHANGED decisionState
           ELSE /\ decision_scores_' = Val("array", r.v)
                /\ threshold_' = p.threshold
                /\ mu_' = p.mu
                /\ sigma_' = p.sigma
                /\ labels_' = FitLabels(p)
                /\ retval' = Self
    /\ UNCHANGED <<hyper, epochs, n_samples, net, criterion, train_loader, X,
                   prepareCalls, epochUpdateCalls, trials, lastCall>>

(* the training_prepare hook raises: fit propagates it *)
FitRaise ==
    /\ pc = "prepare"
    /\ pc' = "idle"
    /\ member' = 0 /\ i' = 0 /\ cnt' = 0
    /\ retval' = Raised("HookError")
    /\ UNCHANGED <<hyper, epochs, n_samples, net, criterion, train_loader,
                   test_loader, decisionState, X, prepareCalls,
                   epochUpdateCalls, trials, lastCall>>

----------------------------------------------------------------------------
(* the public scoring calls *)

DecisionFunctionCall(Xt) ==
    /\ pc = "idle"
    /\ lastCall' = "decision_function"
    /\ prepareCalls' = 0 /\ epochUpdateCalls' = 0 /\ trials' = 0
    /\ test_loader' = 1
    /\ retval' = decision_function(Xt)
    /\ X' = Xt
    /\ UNCHANGED <<hyper, epochs, n_samples, net, criterion, train_loader,
                   decisionState, pc, member, i, cnt>>

(* variant: predict stores the scores it computed as decision_scores_ *)
PredictCallRefitting(Xt, return_confidence) ==
    /\ pc = "idle"
    /\ lastCall' = "predict"
    /\ prepareCalls' = 0 /\ epochUpdateCalls' = 0 /\ trials' = 0
    /\ test_loader' = 1
    /\ retval' = predict(Xt, return_confidence)
    /\ X' = Xt
    /\ LET r == decision_function(Xt)
       IN  IF IsError(retval') THEN UNCHANGED decisionState
           ELSE /\ decision_scores_' = Val("array", r.v)
                /\ UNCHANGED <<labels_, threshold_, mu_, sigma_>>
    /\ UNCHANGED <<hyper, epochs, n_samples, net, criterion, train_loader,
                   pc, member, i, cnt>>

PredictCall(Xt, return_confidence) ==
    /\ pc = "idle"
    /\ lastCall' = "predict"
    /\ prepareCalls' = 0 /\ epochUpdateCalls' = 0 /\ trials' = 0
    /\ test_loader' = 1
    /\ retval' = predict(Xt, return_confidence)
    /\ X' = Xt
    /\ UNCHANGED <<hyper, epochs, n_samples, net, criterion, train_loader,
                   decisionState, pc, member, i, cnt>>

----------------------------------------------------------------------------
(* fit_auto_hyper *)

(* load_ray_checkpoint(best_config, best_checkpoint): the live               *)
(* hyper-parameters and parameters it leaves behind                         *)
load_ray_checkpoint(best_config, best_checkpoint) ==
    [lr |-> lr, net |-> net, epochs |-> epochs]

(* best_config['epochs'] = best_checkpoint['epoch'] *)
TunedConfig(best_config, best_checkpoint) == <<best_config[1], best_checkpoint>>

(* fit_auto_hyper.  tune.run is the external scheduler: it runs             *)
(* n_ray_samples trials and its best trial has some sampled config and a    *)
(* last checkpoint taken at some epoch 1..max_t = self.epochs.              *)
FitAutoHyperCall(Xin, n_ray_samples, best_config, best_checkpoint) ==
    /\ pc = "idle"
    /\ lastCall' = "fit_auto_hyper"
    /\ prepareCalls' = 0 /\ epochUpdateCalls' = 0
    /\ X' = Xin
    /\ LET known == data_type \in {"ts", "tabular"}
           live == load_ray_checkpoint(best_config, best_checkpoint)
           r == decision_function(Xin)
           p == ProcessDecisionScores(r.v, contamination)
       IN  IF ~known \/ Len(TrainData(Xin)) = 0
           THEN /\ retval' = IF known THEN Raised("IndexError")
                                      ELSE Raised("NotImplementedError")
                /\ trials' = 0
                /\ UNCHANGED <<n_samples, lr, net, epochs, test_loader,
                               decisionState>>
           ELSE /\ n_samples' = Len(TrainData(Xin))
                /\ trials' = n_ray_samples
                /\ lr' = live.lr
                /\ net' = live.net
                /\ epochs' = live.epochs
                /\ test_loader' = 1
                /\ IF IsError(r)
                   THEN retval' = r /\ UNCHANGED decisionState
                   ELSE /\ decision_scores_' = Val("array", r.v)
                        /\ threshold_' = p.threshold
                        /\ mu_' = p.mu
                        /\ sigma_' = p.sigma
                        /\ labels_' = FitLabels(p)
                        /\ retval' = Val("config",
                                         TunedConfig(best_config, best_checkpoint))
    /\ UNCHANGED <<data_type, n_ensemble, epoch_steps, contamination, seq_len,
                   stride, criterion, train_loader, pc, member, i, cnt>>

----------------------------------------------------------------------------
Fit == \E Xin \in Datasets : FitCall(Xin)
FitAutoHyper ==
    \E Xin \in Datasets, n \in NRaySamples, l \in TunedLr, e \in 1..epochs :
        FitAutoHyperCall(Xin, n, <<l>>, e)
DecisionFunction == \E Xt \in Datasets : DecisionFunctionCall(Xt)
Predict == \E Xt \in Datasets, rc \in BOOLEAN : PredictCall(Xt, rc)

Next ==
    \/ Fit
    \/ TrainingPrepare
    \/ TrainBatch
    \/ EpochEnd
    \/ FitInference
    \/ FitRaise
    \/ FitAutoHyper
    \/ DecisionFunction
    \/ Predict

Spec == Init /\ [][Next]_vars


----------------------------------------------------------------------------
(* Scoring on richer inputs: a model fitted once on ScoreTrain, then scored  *)
(* on every input of ScoreInputs.                                           *)
ScoreTrain == [k \in 1..ScoreMaxLen |-> k % 2]
ScoreInputs == SeqsUpTo(ScoreVals, ScoreMaxLen)

InitScore ==
    /\ data_type \in {"tabular", "ts"}
    /\ n_ensemble \in 1..ScoreMaxEnsemble
    /\ epochs = 1
    /\ epoch_steps = -1
    /\ contamination \in Contaminations
    /\ seq_len \in IF data_type = "ts" THEN 1..ScoreMaxSeqLen ELSE {100}
    /\ stride \in IF data_type = "ts" THEN {1, 2} ELSE {1}
    /\ Constructed

NextScore ==
    \/ FitCall(ScoreTrain)
    \/ TrainingPrepare
    \/ TrainBatch
    \/ EpochEnd
    \/ FitInference
    \/ \E Xt \in ScoreInputs : DecisionFunctionCall(Xt)

SpecScore == InitScore /\ [][NextScore]_vars

----------------------------------------------------------------------------
(* Thresholding on richer score arrays: one fit of a tabular model, whose    *)
(* decision scores are n_ensemble times the rows' values.                   *)
ThrDatasets == SeqsUpTo(ThrVals, ThrMaxLen)

InitThreshold ==
    /\ data_type = "tabular"
    /\ n_ensemble \in 1..2
    /\ epochs = 1
    /\ epoch_steps = -1
    /\ contamination \in ThrContaminations
    /\ seq_len = 100
    /\ stride = 1
    /\ Constructed

NextThreshold ==
    \/ lastCall = "none" /\ \E Xin \in ThrDatasets : FitCall(Xin)
    \/ TrainingPrepare
    \/ TrainBatch
    \/ EpochEnd
    \/ FitInference

SpecThreshold == InitThreshold /\ [][NextThreshold]_vars

----------------------------------------------------------------------------
(* The claims. *)

FitReturned == lastCall = "fit" /\ pc = "idle" /\ retval = Self
Fitted == decision_scores_ # None

(* C1: after fit(X) returns, decision_scores_ is the score array of X,      *)
(* threshold_ is percentile(decision_scores_, 100 * (1 - contamination)),   *)
(* and labels_ is a 0/1 array as long as decision_scores_ with labels_[k]   *)
(* = 1 iff decision_scores_[k] > threshold_.                                *)
C1_FitSetsDecisionState ==
    FitReturned =>
        /\ decision_scores_ = Val("array", decision_function(X).v)
        /\ threshold_ = Val("float", Percentile(decision_scores_.v,
                                                PercentileRank(contamination)))
        /\ labels_.tag = "array"
        /\ Len(labels_.v) = Len(decision_scores_.v)
        /\ \A k \in 1..Len(labels_.v) :
              /\ labels_.v[k] \in {0, 1}
              /\ labels_.v[k] = 1 <=> Gt(decision_scores_.v[k], threshold_.v)

(* C2: decision_function returns the element-wise plain sum of the          *)
(* n_ensemble passes: n_ensemble times the score array of one pass.         *)
C2_EnsembleSum ==
    (lastCall = "decision_function" /\ ~IsError(retval)) =>
        /\ retval.tag = "scores"
        /\ Len(retval.v) = Len(MemberScores(X).v)
        /\ \A k \in 1..Len(retval.v) :
              retval.v[k] = n_ensemble * MemberScores(X).v[k]

C2_Witness ==
    /\ lastCall = "decision_function"
    /\ retval.tag = "scores"
    /\ data_type = "tabular"
    /\ n_ensemble = 3
    /\ X = <<1, 0, 3>>
    /\ retval.v = <<3, 0, 9>>

(* C3: in every epoch the number of batches processed is at most            *)
(* epoch_steps when epoch_steps # -1, and every batch of the loader when    *)
(* epoch_steps = -1.                                                        *)
C3_EpochStepsCap ==
    pc = "epoch_end" =>
        IF epoch_steps # -1 THEN cnt <= epoch_steps ELSE cnt = train_loader

(* C4: with a data_type other than 'tabular' and 'ts', fit and              *)
(* fit_auto_hyper fail before any training work: no training_prepare, no    *)
(* epoch, no trial, no fitted attribute, and the call ends in an            *)
(* invalid-configuration error.                                             *)
C4_InvalidDataTypeRejected ==
    data_type \notin {"tabular", "ts"} =>
        /\ prepareCalls = 0 /\ epochUpdateCalls = 0 /\ trials = 0
        /\ decisionState = <<None, None, None, None, None>>
        /\ lastCall \in {"fit", "fit_auto_hyper"} =>
              pc = "idle" /\ retval = Raised("NotImplementedError")

AnomalousCount ==
    Cardinality({k \in 1..Len(decision_scores_.v) :
                    Gt(decision_scores_.v[k], threshold_.v)})

Distinct(s) == \A a, b \in 1..Len(s) : a # b => s[a] # s[b]

(* C5 as stated: for every contamination c and every fitted score array of  *)
(* n scores, ties included, the number of samples with score > threshold_   *)
(* differs from c * n by at most one.                                       *)
C5_WithinOneSample ==
    Fitted =>
        LET d == AnomalousCount * contamination[2]
                     - contamination[1] * Len(decision_scores_.v)
        IN  -contamination[2] <= d /\ d <= contamination[2]

(* C5 as amended: the number of samples with score > threshold_ is always   *)
(* less than c * n + 1, and is more than c * n - 1 when the n scores are    *)
(* pairwise distinct; with tied scores it can be lower.                     *)
C5_WithinOneSampleDistinct ==
    Fitted =>
        LET d == AnomalousCount * contamination[2]
                     - contamination[1] * Len(decision_scores_.v)
        IN  /\ d < contamination[2]
            /\ Distinct(decision_scores_.v) => -contamination[2] < d

C5_Witness ==
    /\ Fitted
    /\ Len(decision_scores_.v) = 4
    /\ Distinct(decision_scores_.v)
    /\ contamination = <<49, 100>>
    /\ AnomalousCount = 2

(* C6: after fit_auto_hyper completes, the live epochs equals the epoch     *)
(* recorded in the best trial's checkpoint.                                 *)
C6_LiveEpochsFromCheckpoint ==
    (lastCall = "fit_auto_hyper" /\ retval.tag = "config") =>
        epochs = retval.v[2]

(* C7: in 'ts' mode with n_samples >= seq_len, decision_function of a       *)
(* model with a net returns n_samples scores whatever the training stride:  *)
(* the first seq_len - 1 are zero and entry t is n_ensemble times the       *)
(* score of the window ending at timestamp t.                               *)
C7_TsReexpansion ==
    (/\ lastCall = "decision_function"
     /\ data_type = "ts"
     /\ net # 0
     /\ Len(X) >= seq_len) =>
        /\ retval.tag = "scores"
        /\ Len(retval.v) = Len(X)
        /\ \A t \in 1..Len(X) :
              retval.v[t] =
                  IF t < seq_len THEN 0
                  ELSE n_ensemble
                         * inference_forward(SubSeq(X, t - seq_len + 1, t), "ts")

C7_Witness ==
    /\ lastCall = "decision_function"
    /\ data_type = "ts"
    /\ seq_len = 2 /\ stride = 2 /\ n_ensemble = 2
    /\ X = <<1, 0, 3>>
    /\ retval = Val("scores", <<0, 2, 6>>)

(* C8: decision_function and predict (with or without confidence) on a      *)
(* fitted model leave threshold_, labels_, decision_scores_ and the         *)
(* recorded mean and std as they were.                                      *)
C8_ScoringKeepsDecisionState ==
    [][(/\ pc = "idle"
        /\ Fitted
        /\ lastCall' \in {"decision_function", "predict"})
          => decisionState' = decisionState]_vars

C8_Witness ==
    /\ lastCall = "predict"
    /\ Fitted
    /\ retval.tag = "labels"
    /\ retval.w # <<>>
    /\ Len(X) = 3

C10_SequentialEnsemble ==
    /\ pc = "prepare" =>
          /\ member < n_ensemble
          /\ prepareCalls = member
          /\ epochUpdateCalls = member * epochs
    /\ pc \in {"train", "epoch_end"} =>
          /\ member < n_ensemble /\ i < epochs
          /\ prepareCalls = member + 1
          /\ epochUpdateCalls = member * epochs + i
          /\ net = prepareCalls /\ criterion = prepareCalls
    /\ (pc = "infer" \/ FitReturned) =>
          /\ prepareCalls = n_ensemble
          /\ epochUpdateCalls = n_ensemble * epochs
          /\ net = n_ensemble /\ criterion = n_ensemble

C10_Witness ==
    /\ FitReturned
    /\ n_ensemble = 2 /\ epochs = 2
    /\ prepareCalls = 2 /\ epochUpdateCalls = 4
    /\ net = 2

=============================================================================
